---- MODULE Spec2Model ----
(***************************************************************************)
(* A model of pixi-effects-camera: the Camera registry (Camera.ts), the    *)
(* CameraEffect base class (CameraEffect.ts) and the built-in effects      *)
(* (Shake, Pan, Zoom, Rotate and Fade).                                    *)
(*                                                                         *)
(* Camera.update is `this._effects = this._effects.filter(callback)`.  The *)
(* model runs it as TickBegin (filter starts on the current array), one    *)
(* TickStep per array element (the whole filter callback for that element) *)
(* and TickEnd (the assignment of filter's result to this._effects).  The  *)
(* points between the steps are the points at which user code (an effect's *)
(* update, onEnd or endCondition) runs and can call back into the camera.  *)
(*                                                                         *)
(* The clock (performance.now()) is the variable `now`.  It advances only  *)
(* between ticks: all reads of performance.now() within one Camera.update  *)
(* return the same value, as under the fake timers of the test suite.      *)
(***************************************************************************)
EXTENDS Integers, Sequences, FiniteSets, TLC

\* ---------------------------------------------------------------- bounds
\* The clock stops at MaxTime.
MaxTime == 2
\* addEffect is called at most MaxAdds times in a run (MaxListAdds in
\* SpecList), and at most MaxReentrant times from the callbacks of one tick.
MaxAdds == 2
MaxListAdds == 3
MaxReentrant == 1
\* onEndCalls counts up to MaxCount ("MaxCount or more").
MaxCount == 2

\* ------------------------------------------------------- input domains
\* The effect instances (object identities) a run may construct; Pair are
\* the two that the runs with timed effects construct.
Effects == {"e1", "e2", "e3"}
Pair == {"e1", "e2"}
\* `Infinity`: greater than every elapsed time the clock can produce, so
\* that `elapsed >= Infinity` is false as in JavaScript.
Infinity == MaxTime + 1
Durations == {0, 1, Infinity}
Deltas == {1, 2}
Intensities == {1, 2}
InitialPivots == {<<0, 0>>, <<3, 4>>}
\* The two draws of Math.random() * intensity, as integers of [0, intensity).
Draws == {d \in 0..2 : \E i \in Intensities : d < i}
\* Fixed point: node.scale, node.angle and node.alpha hold the number v as
\* the integer v * Unit.  With the inputs below every product and quotient
\* of the built-in effects is a whole number of 1/Unit, so that the integer
\* arithmetic of the model is the arithmetic of the code.
Unit == 400
\* The 0.01 of Zoom and Fade.
Tolerance == Unit \div 100
\* The duration of the built-in effects, in clock units, and the clock
\* times (after those that Advance reaches) at which the application calls
\* into the library in the runs with them.
LongDuration == 200
Instants == {199, 200, 201}
BuiltinOptions ==
    [given |-> TRUE, hasDuration |-> TRUE, duration |-> LongDuration,
     endCondition |-> FALSE]
\* Pan: the container's pivot before the effect, and the location to pan to.
PanPivots == {<<0, 0>>, <<400, 400>>}
Locations == {<<200, 600>>}
\* Zoom: the container's scale before the effect (1 and 6), the zoom levels
\* (2 and 3 on both axes, and 2 on the x axis with 8 on the y axis).
Scales == {<<Unit, Unit>>, <<6 * Unit, 6 * Unit>>}
ZoomLevels == {<<2 * Unit, 2 * Unit>>, <<3 * Unit, 3 * Unit>>, <<2 * Unit, 8 * Unit>>}
\* The easing functions given to Zoom: none (the default, linear), or a
\* step function, (t) => (t < 0.5 ? 0 : 1).
Easings == {"linear", "step"}
\* Rotate: the container's pivot before the effect (the origin, a point off
\* both axes, a point on the y axis), its angle before the effect (0 and 30
\* degrees), the angle of the effect (45 degrees, and 45 degrees the other way).
RotatePivots == {<<0, 0>>, <<3, 4>>, <<0, 4>>}
InitialAngles == {0, 30 * Unit}
Angles == {45 * Unit, -45 * Unit}
\* Fade: the colors, and the opacities to fade to (0 and 1).
Colors == {0, 255}
Opacities == {0, Unit}
\* The built-in effects whose update computes what it returns.
Computed == {"Pan", "Zoom", "Rotate", "Fade"}

\* What effect.update(delta) does: it returns true, false or nothing, or it
\* throws.
UpdateResults == {"true", "false", "undefined", "throw"}

\* The `options` argument of an effect constructor: absent, or an object
\* with an optional duration and an optional endCondition.
OptionInputs ==
    {[given |-> FALSE, hasDuration |-> FALSE, duration |-> 0, endCondition |-> FALSE]}
    \cup {[given |-> TRUE, hasDuration |-> FALSE, duration |-> 0, endCondition |-> ec] :
             ec \in BOOLEAN}
    \cup {[given |-> TRUE, hasDuration |-> TRUE, duration |-> d, endCondition |-> ec] :
             d \in Durations, ec \in BOOLEAN}

VARIABLES
    now,        \* performance.now()
    effects,    \* Camera._effects
    eff,        \* the fields of every effect instance
    pivot,      \* container.pivot, <<x, y>>
    pivot0,     \* history: container.pivot when the run started
    node,       \* the container's scale, angle and size, and the alpha and
                \* tint of the overlay sprite of the Fade effects
    pc,         \* "idle", or "tick" while Camera.update is running
    delta,      \* the argument of the running Camera.update
    iter,       \* the array the running (or last) filter iterates
    idx,        \* position of filter in iter
    kept,       \* the elements filter has kept so far
    log,        \* history: the calls of the running or most recent operation
    added,      \* history: addEffect calls per instance
    onEndCalls, \* history: onEnd invocations per instance (saturates at MaxCount)
    firstTick,  \* history: clock time of the instance's first tick, -1 before it
    observed    \* history: <<lastRanTimeStamp - startedTimeStamp>> as the
                \* instance's latest update call found it, <<>> before it

vars == <<now, effects, eff, pivot, pivot0, node, pc, delta, iter, idx, kept, log, added,
          onEndCalls, firstTick, observed>>

\* ------------------------------------------------------------- helpers
Range(s) == {s[i] : i \in DOMAIN s}
InSeq(e, s) == e \in Range(s)
Min(a, b) == IF a < b THEN a ELSE b

Ev(ev, e, val, arg) == [ev |-> ev, e |-> e, val |-> val, arg |-> arg]

RECURSIVE SumAdded(_, _)
SumAdded(f, S) ==
    IF S = {} THEN 0
    ELSE LET x == CHOOSE y \in S : TRUE IN f[x] + SumAdded(f, S \ {x})

Abs(x) == IF x < 0 THEN -x ELSE x

\* A container of 800 x 600 with PIXI's defaults (scale 1, angle 0), and an
\* overlay sprite with PIXI's defaults (alpha 1, white tint).
Node0 ==
    [scale |-> <<Unit, Unit>>, angle |-> 0, width |-> 800, height |-> 600,
     alpha |-> Unit, tint |-> 16777215]

\* An instance that has not been constructed.
NoEffect ==
    [kind |-> "None", duration |-> 0, endCondition |-> FALSE, hasOnEnd |-> FALSE,
     startedTimeStamp |-> 0, lastRanTimeStamp |-> 0,
     intensity |-> 0, initialPivot |-> <<0, 0>>]

\* CameraEffect.constructor: _options = { duration: (options &&
\* options.duration) || 0, endCondition: (options && options.endCondition)
\* || undefined }; startedTimeStamp = lastRanTimeStamp = 0.
CameraEffect(kind, options, hasOnEnd) ==
    [kind |-> kind,
     duration |-> IF options.given /\ options.hasDuration /\ options.duration # 0
                  THEN options.duration ELSE 0,
     endCondition |-> options.given /\ options.endCondition,
     hasOnEnd |-> hasOnEnd,
     startedTimeStamp |-> 0, lastRanTimeStamp |-> 0,
     intensity |-> 0, initialPivot |-> <<0, 0>>]

\* ShakeEffect.constructor: super(container, options); intensity; the
\* container's pivot at construction is kept in _initialPivotVector.
ShakeEffect(options, intensity) ==
    [CameraEffect("Shake", options, TRUE) EXCEPT
        !.intensity = intensity, !.initialPivot = pivot]

\* PanEffect.constructor: the location, the direction of each axis (is the
\* location greater than the pivot now) and the distance to go.
PanEffect(options, location) ==
    CameraEffect("Pan", options, FALSE) @@
    [coordinates |-> location,
     xIsGreater |-> location[1] > pivot[1],
     yIsGreater |-> location[2] > pivot[2],
     difference |-> <<Abs(location[1] - pivot[1]), Abs(location[2] - pivot[2])>>]

\* ZoomEffect.constructor: the zoom level, the easing function (linear when
\* none is given), the scale now and the direction of each axis.
ZoomEffect(options, zoomLevel, easingFn) ==
    CameraEffect("Zoom", options, FALSE) @@
    [zoomLevel |-> zoomLevel,
     easingFn |-> easingFn,
     initialZoomLevel |-> node.scale,
     xIsGreater |-> zoomLevel[1] > node.scale[1],
     yIsGreater |-> zoomLevel[2] > node.scale[2]]

\* RotateEffect.constructor: the pivot and the angle now, the angle of the
\* effect, the easing function.
RotateEffect(options, angle) ==
    [CameraEffect("Rotate", options, FALSE) EXCEPT !.initialPivot = pivot] @@
    [angle |-> angle, initialAngle |-> node.angle, easingFn |-> "linear"]

\* RotateEffect.constructor: an axis of the pivot that is 0 is moved to the
\* middle of the container.
RotatePivot ==
    <<IF pivot[1] = 0 THEN node.width \div 2 ELSE pivot[1],
      IF pivot[2] = 0 THEN node.height \div 2 ELSE pivot[2]>>

\* Mutant of FadeFilter: the tint of the sprite is not set.
FadeFilterUntinted(color) == [node EXCEPT !.alpha = 0]

\* FadeEffect.constructor: the sprite gets alpha 0 and the color as its tint.
FadeFilter(color) == [node EXCEPT !.alpha = 0, !.tint = color]

\* FadeEffect.constructor: color, opacity, easing function; the initial
\* opacity is the alpha the constructor has just set, and the direction is
\* decided by comparing it with the opacity to fade to.
FadeEffect(options, color, opacity) ==
    CameraEffect("Fade", options, FALSE) @@
    [color |-> color, opacity |-> opacity, easingFn |-> "linear",
     initialOpacity |-> FadeFilter(color).alpha,
     isFadeOut |-> ~(FadeFilter(color).alpha > opacity)]

\* Mutant of Init: the camera is constructed with an effect in its list.
InitPreloaded ==
    /\ now = 0
    /\ effects = <<"e1">>
    /\ \E o \in OptionInputs, h \in BOOLEAN :
           eff = [e \in Effects |->
                     IF e \in Pair THEN CameraEffect("Custom", o, h) ELSE NoEffect]
    /\ pivot = <<0, 0>>
    /\ pivot0 = pivot
    /\ node = Node0
    /\ pc = "idle"
    /\ delta = 0
    /\ iter = <<>>
    /\ idx = 0
    /\ kept = <<>>
    /\ log = <<>>
    /\ added = [e \in Effects |-> 0]
    /\ onEndCalls = [e \in Effects |-> 0]
    /\ firstTick = [e \in Effects |-> -1]
    /\ observed = [e \in Effects |-> <<>>]

\* A new Camera (no effects), and the instances the application has
\* constructed of one user-defined effect class (with or without an onEnd
\* method), all with the same options: new Custom(container, options).
Init ==
    /\ now = 0
    /\ effects = <<>>
    /\ \E o \in OptionInputs, h \in BOOLEAN :
           eff = [e \in Effects |->
                     IF e \in Pair THEN CameraEffect("Custom", o, h) ELSE NoEffect]
    /\ pivot = <<0, 0>>
    /\ pivot0 = pivot
    /\ node = Node0
    /\ pc = "idle"
    /\ delta = 0
    /\ iter = <<>>
    /\ idx = 0
    /\ kept = <<>>
    /\ log = <<>>
    /\ added = [e \in Effects |-> 0]
    /\ onEndCalls = [e \in Effects |-> 0]
    /\ firstTick = [e \in Effects |-> -1]
    /\ observed = [e \in Effects |-> <<>>]

\* The clock moves on between two calls into the library.
Advance ==
    /\ pc = "idle"
    /\ now < MaxTime
    /\ now' = now + 1
    /\ iter' = <<>> /\ idx' = 0 /\ kept' = <<>> /\ log' = <<>>
    /\ UNCHANGED <<effects, eff, pivot, pivot0, node, pc, delta, added, onEndCalls,
                   firstTick, observed>>

\* new ShakeEffect(container, options, intensity).  The application gives
\* all its Shake effects the same options and intensity.
NewShake(e, options, intensity) ==
    /\ pc = "idle"
    /\ e \in Pair
    /\ eff[e].kind = "None"
    /\ \A x \in Effects :
           eff[x].kind = "Shake" =>
               /\ eff[x].duration = CameraEffect("Shake", options, TRUE).duration
               /\ eff[x].endCondition = CameraEffect("Shake", options, TRUE).endCondition
               /\ eff[x].intensity = intensity
    /\ eff' = [eff EXCEPT ![e] = ShakeEffect(options, intensity)]
    /\ iter' = <<>> /\ idx' = 0 /\ kept' = <<>>
    /\ log' = <<>>
    /\ UNCHANGED <<now, effects, pivot, pivot0, node, pc, delta, added, onEndCalls,
                   firstTick, observed>>

\* Time passes between two calls into the library, in the runs with
\* built-in effects.
Elapse(t) ==
    /\ pc = "idle"
    /\ t > now
    /\ now' = t
    /\ iter' = <<>> /\ idx' = 0 /\ kept' = <<>> /\ log' = <<>>
    /\ UNCHANGED <<effects, eff, pivot, pivot0, node, pc, delta, added, onEndCalls,
                   firstTick, observed>>

\* The application constructs instance e as built-in effect E; the
\* constructor leaves the pivot at p and the scale, angle and overlay at n.
New(e, E, p, n) ==
    /\ pc = "idle"
    /\ eff[e].kind = "None"
    /\ eff' = [eff EXCEPT ![e] = E]
    /\ pivot' = p
    /\ node' = n
    /\ iter' = <<>> /\ idx' = 0 /\ kept' = <<>> /\ log' = <<>>
    /\ UNCHANGED <<now, effects, pivot0, pc, delta, added, onEndCalls, firstTick, observed>>

\* new PanEffect(container, options, location)
NewPan(e, options, location) == New(e, PanEffect(options, location), pivot, node)

\* new ZoomEffect(container, options, zoomLevel, easingFn)
NewZoom(e, options, zoomLevel, easingFn) ==
    New(e, ZoomEffect(options, zoomLevel, easingFn), pivot, node)

\* new RotateEffect(container, options, angle)
NewRotate(e, options, angle) == New(e, RotateEffect(options, angle), RotatePivot, node)

\* new FadeEffect(container, options, filter, color, opacity)
NewFade(e, options, color, opacity) ==
    New(e, FadeEffect(options, color, opacity), pivot, FadeFilter(color))

\* ----------------------------------------------------------- Camera
\* Mutant of AddEffectResult: an instance that is in the list is not added again.
AddEffectUnique(list, e) == IF InSeq(e, list) THEN list ELSE Append(list, e)

\* Camera.addEffect: this._effects = [...this.effects, effect]
AddEffectResult(list, e) == Append(list, e)

\* Mutant of RemoveEffectResult: only the first entry of the instance is
\* removed (indexOf and splice).
RemoveFirstOnly(list, e) ==
    IF InSeq(e, list)
    THEN LET i == CHOOSE j \in DOMAIN list :
                      list[j] = e /\ \A k \in 1..(j - 1) : list[k] # e
         IN  SubSeq(list, 1, i - 1) \o SubSeq(list, i + 1, Len(list))
    ELSE list

\* Camera.removeEffect: this._effects = this._effects.filter((e) => e !== effect)
RemoveEffectResult(list, e) == SelectSeq(list, LAMBDA x : x # e)

\* The calls into the camera made so far from the callbacks of the running
\* tick.
Reentrant ==
    SelectSeq(log, LAMBDA c : c.ev \in {"addEffect", "removeEffect"})

\* A call into the camera is made either between ticks, by the application,
\* or from inside an effect callback (update, endCondition, onEnd) of the
\* running tick: then at least one callback has started, and idx > 1 once
\* the callback that made the call has finished.
BetweenTicks == pc = "idle"
InCallback == pc = "tick" /\ idx > 1 /\ Len(Reentrant) < MaxReentrant

\* The history of a call: a call from a callback is appended to the log of
\* the running tick, a call between ticks starts a new log.
Logged(event) ==
    IF pc = "idle"
    THEN /\ log' = <<event>>
         /\ iter' = <<>> /\ idx' = 0 /\ kept' = <<>>
    ELSE /\ log' = Append(log, event)
         /\ UNCHANGED <<iter, idx, kept>>

AddEffect(e) ==
    /\ eff[e].kind # "None"
    /\ effects' = AddEffectResult(effects, e)
    /\ added' = [added EXCEPT ![e] = @ + 1]
    /\ Logged(Ev("addEffect", e, "", 0))
    /\ UNCHANGED <<now, eff, pivot, pivot0, node, pc, delta, onEndCalls, firstTick, observed>>

\* Mutant of RemoveEffect: the removed effect is ended as a tick ends it (its
\* onEnd is called, which for a Shake resets the pivot).
RemoveEffectEnding(e) ==
    /\ eff[e].kind # "None"
    /\ effects' = RemoveEffectResult(effects, e)
    /\ Logged(Ev("removeEffect", e, "", 0))
    /\ onEndCalls' = IF eff[e].hasOnEnd
                     THEN [onEndCalls EXCEPT ![e] = Min(@ + 1, MaxCount)]
                     ELSE onEndCalls
    /\ pivot' = IF eff[e].kind = "Shake" THEN eff[e].initialPivot ELSE pivot
    /\ UNCHANGED <<now, eff, pivot0, node, pc, delta, added, firstTick, observed>>

RemoveEffect(e) ==
    /\ eff[e].kind # "None"
    /\ effects' = RemoveEffectResult(effects, e)
    /\ Logged(Ev("removeEffect", e, "", 0))
    /\ UNCHANGED <<now, eff, pivot, pivot0, node, pc, delta, added, onEndCalls,
                   firstTick, observed>>

\* Camera.update(delta), entry: filter starts iterating this._effects.
TickBegin(d) ==
    /\ pc = "idle"
    /\ pc' = "tick"
    /\ delta' = d
    /\ iter' = effects
    /\ idx' = 1
    /\ kept' = <<>>
    /\ log' = <<Ev("tick", "", "", 0)>>
    /\ UNCHANGED <<now, effects, eff, pivot, pivot0, node, added, onEndCalls,
                   firstTick, observed>>

\* if (effect.startedTimeStamp === 0) effect.startedTimeStamp = performance.now()
StartedStamp(E) == IF E.startedTimeStamp = 0 THEN now ELSE E.startedTimeStamp

\* Mutant of DurationReached: the comparison is the wrong way round.
DurationNotExceeded(started, duration) == now - started <= duration

\* Mutant of DurationReached: the duration has to be exceeded.
DurationExceeded(started, duration) == now - started > duration

\* currentTimestamp - effect.startedTimeStamp >= effect.options.duration
DurationReached(started, duration) == now - started >= duration

\* effect.options.endCondition && effect.options.endCondition(delta) === true
EndConditionReached(E, endc) == E.endCondition /\ endc

\* Mutant of ShakeUpdate: the draws are offsets from the pivot the
\* container has.
ShakeUpdateOffset(dx, dy) == <<pivot[1] + dx, pivot[2] + dy>>

\* ShakeEffect.update: pivot = (Math.random() * intensity, Math.random() *
\* intensity).  dx and dy are the two draws, integers of [0, intensity).
ShakeUpdate(dx, dy) == <<dx, dy>>

\* Mutant of ShakeOnEnd: only the x axis is reset.
ShakeOnEndXOnly(E, p) == <<E.initialPivot[1], p[2]>>

\* ShakeEffect.onEnd: both axes of the pivot p are reset to
\* _initialPivotVector.
ShakeOnEnd(E, p) == <<E.initialPivot[1], E.initialPivot[2]>>

\* Mutant of Stops: every falsy value stops the effect (!continueEffect).
StopsOnFalsy(ret) == ret \in {"false", "undefined"}

\* if (continueEffect === false): only the value false stops the effect.
Stops(ret) == ret = "false"

\* Mutant of CallbackCalls: the end condition is not evaluated once the
\* duration is reached (durationReached || endCondition(delta)).
CallbackCallsShortCircuit(e, E, ret, endc, ends) ==
    <<Ev("update", e, ret, 0)>>
    \o (IF /\ ~(ret = "false") /\ E.endCondition
            /\ ~DurationReached(StartedStamp(E), E.duration)
        THEN <<Ev("endCondition", e, IF endc THEN "true" ELSE "false", delta)>>
        ELSE <<>>)
    \o (IF ends /\ E.hasOnEnd THEN <<Ev("onEnd", e, "", 0)>> ELSE <<>>)

\* The calls the filter callback makes for effect e, in the order of the
\* code: update, then (unless update returned false) endCondition when
\* there is one, then onEnd when the effect ends and defines it.
CallbackCalls(e, E, ret, endc, ends) ==
    <<Ev("update", e, ret, 0)>>
    \o (IF ~Stops(ret) /\ E.endCondition
        THEN <<Ev("endCondition", e, IF endc THEN "true" ELSE "false", delta)>>
        ELSE <<>>)
    \o (IF ends /\ E.hasOnEnd THEN <<Ev("onEnd", e, "", 0)>> ELSE <<>>)

\* Mutant of Ends: the end condition is not taken into account.
EndsWithoutEndCondition(E, started, ret, endc) ==
    \/ Stops(ret)
    \/ DurationReached(started, E.duration)

\* Whether the filter callback drops the effect: update returned false, or
\* the duration is reached, or the end condition is met.
Ends(E, started, ret, endc) ==
    \/ Stops(ret)
    \/ DurationReached(started, E.duration)
    \/ EndConditionReached(E, endc)

\* Mutant of LastRanStamp: the stamp is written before the return value of
\* update is looked at.
LastRanStampAlways(E, ret) == now

\* effect.lastRanTimeStamp = performance.now(), skipped when update
\* returned false.
LastRanStamp(E, ret) == IF Stops(ret) THEN E.lastRanTimeStamp ELSE now

\* (this.lastRanTimeStamp - this.startedTimeStamp) / this.options.duration,
\* as the effect's update reads its fields (for a duration > 0).
TimeDiffPercentage(E) ==
    ((E.lastRanTimeStamp - E.startedTimeStamp) * Unit) \div E.duration

\* The easing function applied to t: the default is (t) => +t.
Ease(easingFn, t) ==
    IF easingFn = "step" THEN (IF 2 * t < Unit THEN 0 ELSE Unit) ELSE t

\* The product of a value and a fraction.
Scaled(v, t) == (v * t) \div Unit

\* PanEffect.update: an axis whose location was greater than the pivot is
\* set to difference * timeDiffPercentage, the other to difference *
\* (duration - lastRanTimeStamp) / duration.
PanUpdate(E) ==
    LET t == TimeDiffPercentage(E)
        tNegative == ((E.duration - E.lastRanTimeStamp) * Unit) \div E.duration
    IN  <<Scaled(E.difference[1], IF E.xIsGreater THEN t ELSE tNegative),
          Scaled(E.difference[2], IF E.yIsGreater THEN t ELSE tNegative)>>

\* PanEffect.update returns false: both axes of the pivot p are less than 5
\* away from the location.
PanReached(E, p) ==
    /\ p[1] > E.coordinates[1] - 5 /\ p[1] < E.coordinates[1] + 5
    /\ p[2] > E.coordinates[2] - 5 /\ p[2] < E.coordinates[2] + 5

\* Mutant of ZoomUpdate: the direction of an axis is decided at each update,
\* by comparing the zoom level with the scale the container has.
ZoomUpdateRedirected(E) ==
    LET t == Ease(E.easingFn, TimeDiffPercentage(E))
        axis(i) ==
            IF E.zoomLevel[i] > node.scale[i]
            THEN E.initialZoomLevel[i] + Scaled(E.zoomLevel[i], t) \div 2
            ELSE E.initialZoomLevel[i] - Scaled(E.zoomLevel[i], t)
    IN  <<axis(1), axis(2)>>

\* ZoomEffect.update: initial + amount / 2 on an axis whose zoom level was
\* greater than the scale, initial - amount on the other, where amount =
\* zoomLevel * easingFn(timeDiffPercentage).
ZoomUpdate(E) ==
    LET t == Ease(E.easingFn, TimeDiffPercentage(E))
        axis(i, isGreater) ==
            IF isGreater
            THEN E.initialZoomLevel[i] + Scaled(E.zoomLevel[i], t) \div 2
            ELSE E.initialZoomLevel[i] - Scaled(E.zoomLevel[i], t)
    IN  <<axis(1, E.xIsGreater), axis(2, E.yIsGreater)>>

\* ZoomEffect.update returns false: both axes of the scale sc are less than
\* 0.01 away from the zoom level.
ZoomReached(E, sc) ==
    /\ sc[1] > E.zoomLevel[1] - Tolerance /\ sc[1] < E.zoomLevel[1] + Tolerance
    /\ sc[2] > E.zoomLevel[2] - Tolerance /\ sc[2] < E.zoomLevel[2] + Tolerance

\* RotateEffect.update: angle = _initialAngle + _angle * easingFn(timeDiffPercentage)
RotateUpdate(E) ==
    E.initialAngle + Scaled(E.angle, Ease(E.easingFn, TimeDiffPercentage(E)))

\* RotateEffect.update returns false: container.angle > this._angle
RotateReached(E, a) == a > E.angle

\* FadeEffect.update: alpha = fadeAmount when fading out, _initialOpacity -
\* fadeAmount otherwise, where fadeAmount = 1 * easingFn(timeDiffPercentage).
FadeUpdate(E) ==
    LET fadeAmount == Ease(E.easingFn, TimeDiffPercentage(E))
    IN  IF E.isFadeOut THEN fadeAmount ELSE E.initialOpacity - fadeAmount

\* FadeEffect.update returns false: the alpha al is within 0.01 of the
\* opacity, or beyond it.
FadeReached(E, al) ==
    \/ E.isFadeOut /\ al >= E.opacity - Tolerance
    \/ ~E.isFadeOut /\ al <= E.opacity + Tolerance

\* What the update of a built-in effect returns: false when it has reached
\* its goal, nothing otherwise.
UpdateReturn(E) ==
    LET reached == CASE E.kind = "Pan" -> PanReached(E, PanUpdate(E))
                     [] E.kind = "Zoom" -> ZoomReached(E, ZoomUpdate(E))
                     [] E.kind = "Rotate" -> RotateReached(E, RotateUpdate(E))
                     [] E.kind = "Fade" -> FadeReached(E, FadeUpdate(E))
    IN  IF reached THEN "false" ELSE "undefined"

\* The container's pivot after the callback: Shake's update writes it, and
\* Shake's onEnd, which runs after update, resets it; Pan's update writes
\* it.
PivotAfter(E, ends, dx, dy) ==
    IF E.kind = "Shake"
    THEN (IF ends /\ E.hasOnEnd
          THEN ShakeOnEnd(E, ShakeUpdate(dx, dy))
          ELSE ShakeUpdate(dx, dy))
    ELSE IF E.kind = "Pan" THEN PanUpdate(E)
    ELSE pivot

\* The scale, the angle and the overlay after the callback: the update of
\* Zoom, Rotate and Fade write one of them each.
NodeAfter(E) ==
    CASE E.kind = "Zoom" -> [node EXCEPT !.scale = ZoomUpdate(E)]
      [] E.kind = "Rotate" -> [node EXCEPT !.angle = RotateUpdate(E)]
      [] E.kind = "Fade" -> [node EXCEPT !.alpha = FadeUpdate(E)]
      [] OTHER -> node

\* Mutant of Keep: the element is put in front of those kept so far.
KeepInFront(keptSoFar, e) == <<e>> \o keptSoFar

\* filter keeps an element (its callback returned true): the element comes
\* after those kept so far.
Keep(keptSoFar, e) == Append(keptSoFar, e)

\* Mutant of Interrupted: what filter had kept so far is assigned (as a
\* try / finally around the loop would).
InterruptedAssigns(list, keptSoFar) == keptSoFar

\* this._effects after an exception has left filter: the assignment
\* `this._effects = ...` is not reached, the array is the one it was.
Interrupted(list, keptSoFar) == list

\* One call of the filter callback, for the effect at position idx.  ret is
\* what effect.update(delta) returns ("throw": it throws), endc what
\* endCondition(delta) returns, dx and dy are Shake's random draws.  The
\* update of a built-in effect reads the effect's fields as they are when it
\* is called: started, and the lastRanTimeStamp of the tick before.
TickStep(ret, endc, dx, dy) ==
    /\ pc = "tick"
    /\ idx <= Len(iter)
    /\ LET e == iter[idx]
           E == eff[e]
           started == StartedStamp(E)
           ends == Ends(E, started, ret, endc)
           atUpdate == [E EXCEPT !.startedTimeStamp = started]
       IN  /\ IF E.kind = "Shake"
              THEN ret = "undefined" /\ dx < E.intensity /\ dy < E.intensity
              ELSE dx = 0 /\ dy = 0
           /\ E.kind \in Computed => ret = UpdateReturn(atUpdate)
           /\ (~E.endCondition \/ Stops(ret) \/ ret = "throw") => ~endc
           /\ firstTick' = [firstTick EXCEPT ![e] = IF @ = -1 THEN now ELSE @]
           /\ observed' = [observed EXCEPT
                              ![e] = <<E.lastRanTimeStamp - started>>]
           /\ IF ret = "throw"
              THEN \* the exception leaves filter and Camera.update: the
                   \* assignment to this._effects never happens
                   /\ eff' = [eff EXCEPT ![e].startedTimeStamp = started]
                   /\ effects' = Interrupted(effects, kept)
                   /\ pc' = "idle"
                   /\ kept' = <<>>
                   /\ delta' = 0
                   /\ log' = log \o <<Ev("update", e, "throw", 0),
                                      Ev("throw", "", "", 0)>>
                   /\ UNCHANGED <<pivot, node, idx, onEndCalls>>
              ELSE /\ eff' = [eff EXCEPT ![e].startedTimeStamp = started,
                                         ![e].lastRanTimeStamp = LastRanStamp(E, ret)]
                   /\ pivot' = PivotAfter(atUpdate, ends, dx, dy)
                   /\ node' = NodeAfter(atUpdate)
                   /\ onEndCalls' = IF ends /\ E.hasOnEnd
                                    THEN [onEndCalls EXCEPT ![e] = Min(@ + 1, MaxCount)]
                                    ELSE onEndCalls
                   /\ kept' = IF ends THEN kept ELSE Keep(kept, e)
                   /\ idx' = idx + 1
                   /\ log' = log \o CallbackCalls(e, E, ret, endc, ends)
                   /\ UNCHANGED <<effects, pc, delta>>
    /\ UNCHANGED <<now, pivot0, iter, added>>

\* Camera.update(delta), exit: this._effects = (the result of filter)
TickEnd ==
    /\ pc = "tick"
    /\ idx > Len(iter)
    /\ effects' = kept
    /\ pc' = "idle"
    /\ delta' = 0
    /\ log' = Append(log, Ev("return", "", "", 0))
    /\ UNCHANGED <<now, eff, pivot, pivot0, node, iter, idx, kept, added,
                   onEndCalls,
                   firstTick, observed>>

\* The camera's operations, called by the application between ticks, and
\* the clock.  update is called with a delta of `deltas`, and addEffect at
\* most maxAdds times.
Camera(deltas, maxAdds) ==
    \/ Advance
    \/ \E e \in Effects :
           BetweenTicks /\ SumAdded(added, Effects) < maxAdds /\ AddEffect(e)
    \/ \E e \in Effects : BetweenTicks /\ RemoveEffect(e)
    \/ \E d \in deltas : TickBegin(d)
    \/ \E ret \in UpdateResults, endc \in BOOLEAN, dx, dy \in Draws :
           TickStep(ret, endc, dx, dy)
    \/ TickEnd

\* Calls into the camera made by effect callbacks while a tick is running.
Callbacks ==
    \/ \E e \in Effects :
           InCallback /\ SumAdded(added, Effects) < MaxAdds /\ AddEffect(e)
    \/ \E e \in Effects : InCallback /\ RemoveEffect(e)

\* A camera that runs two instances of a user-defined effect.
Next == Camera(Deltas, MaxAdds)

Spec == Init /\ [][Next]_vars

\* The same camera in an application whose clock keeps advancing (as long as
\* the model lets it) and whose ticker keeps calling Camera.update: a tick
\* that has started runs on, and a new one starts sooner or later.
Tick ==
    \/ \E d \in Deltas : TickBegin(d)
    \/ \E ret \in UpdateResults, endc \in BOOLEAN, dx, dy \in Draws :
           TickStep(ret, endc, dx, dy)
    \/ TickEnd

SpecTicking == Init /\ [][Next]_vars /\ SF_vars(Advance) /\ WF_vars(Tick)

\* The same, with effects whose callbacks call addEffect and removeEffect.
NextReentrant == Camera({1}, MaxAdds) \/ Callbacks

SpecReentrant == Init /\ [][NextReentrant]_vars

\* A camera that runs Shake effects on a container whose pivot is arbitrary.
InitShake ==
    /\ pivot \in InitialPivots
    /\ pivot0 = pivot
    /\ node = Node0
    /\ now = 0
    /\ effects = <<>>
    /\ eff = [e \in Effects |-> NoEffect]
    /\ pc = "idle"
    /\ delta = 0
    /\ iter = <<>>
    /\ idx = 0
    /\ kept = <<>>
    /\ log = <<>>
    /\ added = [e \in Effects |-> 0]
    /\ onEndCalls = [e \in Effects |-> 0]
    /\ firstTick = [e \in Effects |-> -1]
    /\ observed = [e \in Effects |-> <<>>]

NextShake ==
    \/ \E e \in Effects, o \in OptionInputs, i \in Intensities : NewShake(e, o, i)
    \/ Camera({1}, MaxAdds)

SpecShake == InitShake /\ [][NextShake]_vars

\* A camera that holds up to MaxListAdds entries of three effects that never
\* end by their duration: new Custom(container, { duration: Infinity }).
ListOptions ==
    [given |-> TRUE, hasDuration |-> TRUE, duration |-> Infinity, endCondition |-> FALSE]

InitList ==
    /\ eff = [e \in Effects |-> CameraEffect("Custom", ListOptions, FALSE)]
    /\ pivot = <<0, 0>>
    /\ pivot0 = pivot
    /\ node = Node0
    /\ now = 0
    /\ effects = <<>>
    /\ pc = "idle"
    /\ delta = 0
    /\ iter = <<>>
    /\ idx = 0
    /\ kept = <<>>
    /\ log = <<>>
    /\ added = [e \in Effects |-> 0]
    /\ onEndCalls = [e \in Effects |-> 0]
    /\ firstTick = [e \in Effects |-> -1]
    /\ observed = [e \in Effects |-> <<>>]

NextList == Camera({1}, MaxListAdds)

SpecList == InitList /\ [][NextList]_vars

\* The camera of Spec in an application that calls addEffect up to
\* MaxListAdds times: an instance that a tick has removed can be added
\* again while the other instance is in the camera.
NextReadd == Camera({1}, MaxListAdds)

SpecReadd == Init /\ [][NextReadd]_vars

\* A camera and no effect yet, at clock time 0.
Fresh ==
    /\ now = 0
    /\ effects = <<>>
    /\ eff = [e \in Effects |-> NoEffect]
    /\ pc = "idle"
    /\ delta = 0
    /\ iter = <<>>
    /\ idx = 0
    /\ kept = <<>>
    /\ log = <<>>
    /\ added = [e \in Effects |-> 0]
    /\ onEndCalls = [e \in Effects |-> 0]
    /\ firstTick = [e \in Effects |-> -1]
    /\ observed = [e \in Effects |-> <<>>]

\* The camera's operations and the clock of the runs with one built-in
\* effect.
Builtin == Camera({1}, MaxAdds) \/ \E t \in Instants : Elapse(t)

\* A camera that runs a Pan effect on a container whose pivot is arbitrary.
InitPan == Fresh /\ pivot \in PanPivots /\ pivot0 = pivot /\ node = Node0

NextPan == Builtin \/ \E l \in Locations : NewPan("e1", BuiltinOptions, l)

SpecPan == InitPan /\ [][NextPan]_vars

\* A camera that runs a Zoom effect on a container whose scale is arbitrary.
InitZoom ==
    /\ Fresh /\ pivot = <<0, 0>> /\ pivot0 = pivot
    /\ \E sc \in Scales : node = [Node0 EXCEPT !.scale = sc]

NextZoom ==
    Builtin \/ \E z \in ZoomLevels, g \in Easings : NewZoom("e1", BuiltinOptions, z, g)

SpecZoom == InitZoom /\ [][NextZoom]_vars

\* A camera that runs a Rotate effect on a container whose angle and pivot
\* are arbitrary.
InitRotate ==
    /\ Fresh /\ pivot \in RotatePivots /\ pivot0 = pivot
    /\ \E a \in InitialAngles : node = [Node0 EXCEPT !.angle = a]

NextRotate == Builtin \/ \E a \in Angles : NewRotate("e1", BuiltinOptions, a)

SpecRotate == InitRotate /\ [][NextRotate]_vars

\* A camera that runs a Fade effect with an overlay sprite whose tint and
\* alpha are PIXI's defaults.
InitFade == Fresh /\ pivot = <<0, 0>> /\ pivot0 = pivot /\ node = Node0

NextFade ==
    Builtin \/ \E c \in Colors, o \in Opacities : NewFade("e1", BuiltinOptions, c, o)

SpecFade == InitFade /\ [][NextFade]_vars

TypeOK ==
    /\ now \in 0..MaxTime \cup Instants
    /\ pc \in {"idle", "tick"}
    /\ Len(effects) <= MaxListAdds

\* ------------------------------------------------------------- claims
\* Camera.update has just returned: the log is that of the whole tick, iter
\* the active set the tick started with, effects the one it left.
Returned == pc = "idle" /\ log # <<>> /\ log[Len(log)].ev = "return"

\* The running or last tick called ev of effect e / and got val.
CalledAny(ev, e) == \E i \in DOMAIN log : log[i].ev = ev /\ log[i].e = e
Called(ev, e, val) ==
    \E i \in DOMAIN log : log[i].ev = ev /\ log[i].e = e /\ log[i].val = val

\* The number of entries of e in list.
Count(e, list) == Cardinality({i \in DOMAIN list : list[i] = e})

\* The time since the effect started, at the current clock time.
Elapsed(e) == now - eff[e].startedTimeStamp

C2_RemovedAtEndCondition ==
    Returned =>
        \A e \in Range(iter) :
            (Called("endCondition", e, "true") /\ ~Called("endCondition", e, "false"))
            => ~InSeq(e, effects)

\* An effect removed by its end condition before its duration has elapsed.
C2_Witness ==
    /\ Returned
    /\ \E e \in Range(iter) :
          /\ Called("endCondition", e, "true")
          /\ ~Called("update", e, "false")
          /\ Elapsed(e) < eff[e].duration
          /\ ~InSeq(e, effects)

\* C3: the onEnd of an effect that was added once is invoked at most once,
\* and not at all while the effect is in camera.effects between ticks.
C3_OnEndExactlyOnce ==
    \A e \in Effects :
        (eff[e].hasOnEnd /\ added[e] = 1) =>
            /\ onEndCalls[e] <= 1
            /\ (pc = "idle" /\ InSeq(e, effects)) => onEndCalls[e] = 0

\* C4: startedTimeStamp is 0 until the effect's first tick and the clock
\* time of that first tick ever after.
C4_StartedSetOnce ==
    \A e \in Effects :
        eff[e].startedTimeStamp = (IF firstTick[e] = -1 THEN 0 ELSE firstTick[e])

C6_ShakeResetsPivot ==
    Returned =>
        \A e \in Range(iter) :
            (/\ eff[e].kind = "Shake"
             /\ CalledAny("onEnd", e)
             /\ ~InSeq(e, effects)
             /\ \A x \in Effects \ {e} : added[x] = 0)
            => pivot = pivot0

\* A Shake of intensity 2 on a container pivoted at (3, 4) that has run
\* for its whole duration and is ended by a tick.
C6_Witness ==
    /\ Returned
    /\ \E e \in Range(iter) :
          /\ eff[e].kind = "Shake" /\ eff[e].intensity = 2
          /\ CalledAny("onEnd", e) /\ ~InSeq(e, effects)
          /\ \A x \in Effects \ {e} : added[x] = 0
          /\ eff[e].duration = 1 /\ Elapsed(e) >= 1
          /\ pivot0 = <<3, 4>> /\ pivot = pivot0

\* C7: when a tick returns, the effect of the last addEffect call made from
\* a callback during the tick is in camera.effects, and that of the last
\* removeEffect call is not.
C7_ReentrantCallsTakeEffect ==
    Returned =>
        \A i \in DOMAIN log :
            (/\ log[i].ev \in {"addEffect", "removeEffect"}
             /\ \A j \in (i + 1)..Len(log) :
                   ~(log[j].ev \in {"addEffect", "removeEffect"} /\ log[j].e = log[i].e))
            => (InSeq(log[i].e, effects) <=> log[i].ev = "addEffect")

\* The list without the entries of e, entry by entry.
RECURSIVE Without(_, _)
Without(list, e) ==
    IF list = <<>> THEN <<>>
    ELSE IF Head(list) = e THEN Without(Tail(list), e)
    ELSE <<Head(list)>> \o Without(Tail(list), e)

\* C8: an addEffect(e) call between ticks makes camera.effects one entry
\* longer, with e last and every earlier entry where it was, also when e is
\* in the list already.
C8_AddAppends ==
    [][\A e \in Effects :
          (pc = "idle" /\ added'[e] = added[e] + 1) =>
              /\ Len(effects') = Len(effects) + 1
              /\ effects'[Len(effects')] = e
              /\ \A i \in DOMAIN effects : effects'[i] = effects[i]]_vars

\* addEffect of an instance that is in a list of two already.
C8_Witness ==
    /\ log = <<Ev("addEffect", "e1", "", 0)>>
    /\ effects = <<"e1", "e2", "e1">>

\* C9: a removeEffect(e) call between ticks leaves camera.effects without any
\* entry of e and with its other entries in their order (so it leaves a list
\* without e as it is) and touches no effect; a tick iterates the active
\* set it finds, and calls update only for the effects of that set.
C9_RemoveFilters ==
    /\ [][\A e \in Effects :
             (pc = "idle" /\ log' = <<Ev("removeEffect", e, "", 0)>>) =>
                 /\ effects' = Without(effects, e)
                 /\ ~InSeq(e, effects) => effects' = effects
                 /\ eff' = eff /\ onEndCalls' = onEndCalls /\ pivot' = pivot]_vars
    /\ [][(pc = "idle" /\ pc' = "tick") => iter' = effects]_vars
    /\ [](\A i \in DOMAIN log : log[i].ev = "update" => InSeq(log[i].e, iter))

\* removeEffect of the middle entry of a list of three.
C9_Witness ==
    /\ log = <<Ev("removeEffect", "e2", "", 0)>>
    /\ effects = <<"e3", "e1">>
    /\ added["e2"] = 1

\* The filter callback of effect e runs in this step: its first call is
\* update.
CallbackOf(e) ==
    /\ pc = "tick"
    /\ Len(log') > Len(log)
    /\ log'[Len(log) + 1].ev = "update"
    /\ log'[Len(log) + 1].e = e

\* C10: a filter callback in which update returned false leaves the effect's
\* lastRanTimeStamp as it was, one in which update returned true or nothing
\* sets it to the clock time; when a tick returns, every effect of it whose
\* update did not return false has the clock time of the tick as its
\* lastRanTimeStamp, kept or not.
C10_LastRanStamp ==
    /\ [][\A e \in Effects :
             CallbackOf(e) =>
                 /\ log'[Len(log) + 1].val = "false" =>
                       eff'[e].lastRanTimeStamp = eff[e].lastRanTimeStamp
                 /\ log'[Len(log) + 1].val \in {"true", "undefined"} =>
                       eff'[e].lastRanTimeStamp = now]_vars
    /\ [](Returned =>
             \A e \in Range(iter) :
                 ~Called("update", e, "false") => eff[e].lastRanTimeStamp = now)

\* A tick at clock time 2 that removes one effect by its duration and stamps
\* it, and in which the other returns false and keeps its stamp of time 1.
C10_Witness ==
    /\ Returned
    /\ now = 2
    /\ \E a, b \in Range(iter) :
          /\ Called("update", a, "undefined") /\ ~Called("update", a, "false")
          /\ ~InSeq(a, effects) /\ eff[a].lastRanTimeStamp = 2
          /\ Called("update", b, "false") /\ Count(b, iter) = 1
          /\ eff[b].lastRanTimeStamp = 1

\* The effect was constructed with an options object that has an
\* endCondition and no duration.
EndConditionOnly(e) ==
    \E o \in OptionInputs :
        /\ o.given /\ ~o.hasDuration /\ o.endCondition
        /\ eff[e].duration = CameraEffect(eff[e].kind, o, eff[e].hasOnEnd).duration
        /\ eff[e].endCondition = CameraEffect(eff[e].kind, o, eff[e].hasOnEnd).endCondition

\* C11: when a tick returns, an effect constructed with an endCondition and
\* no duration (in the list once, its update not returning false) is in
\* camera.effects if and only if its endCondition returned false in the tick.
C11_EndConditionOverridesDuration ==
    Returned =>
        \A e \in Range(iter) :
            (EndConditionOnly(e) /\ Count(e, iter) = 1 /\ ~Called("update", e, "false"))
            => (InSeq(e, effects) <=> Called("endCondition", e, "false"))

\* C12: an effect with an Infinity duration leaves camera.effects only by a
\* removeEffect call for it or at the return of a tick in which its update
\* returned false or its endCondition returned true.
C12_InfinityNeverReached ==
    [][\A e \in Effects :
          (eff[e].duration = Infinity /\ InSeq(e, effects) /\ ~InSeq(e, effects')) =>
              \/ log' = <<Ev("removeEffect", e, "", 0)>>
              \/ /\ pc = "tick" /\ pc' = "idle"
                 /\ Called("update", e, "false") \/ Called("endCondition", e, "true")]_vars

\* An effect with an Infinity duration and no end condition that is still in
\* camera.effects after ticks at the clock times 0, 1 and 2.
C12_Witness ==
    /\ Returned
    /\ now = 2
    /\ \E e \in Range(iter) :
          /\ eff[e].duration = Infinity /\ ~eff[e].endCondition
          /\ firstTick[e] = 0 /\ eff[e].lastRanTimeStamp = 2
          /\ InSeq(e, effects)

\* C13: with the clock advancing and ticks occurring again and again, an
\* effect with a finite duration whose update never throws, that is in
\* camera.effects between ticks, has started, and whose duration the clock
\* can still reach, is eventually not in camera.effects.
C13_FiniteEventuallyRemoved ==
    \A e \in Pair :
        [](~Called("update", e, "throw")) =>
            ((/\ pc = "idle"
              /\ InSeq(e, effects)
              /\ eff[e].duration # Infinity
              /\ eff[e].startedTimeStamp > 0
              /\ eff[e].startedTimeStamp + eff[e].duration <= MaxTime)
             ~> ~InSeq(e, effects))

\* C14: camera.effects, whenever it can be read (between ticks, between and
\* inside the callbacks of a tick, after a tick that a throw ended), holds no
\* effect whose onEnd the running or last tick has invoked.
C14_TerminationAtomic ==
    \A e \in Effects : CalledAny("onEnd", e) => ~InSeq(e, effects)

\* C15: when a tick returns that took a Pan effect out of camera.effects,
\* both axes of the container's pivot are at most 5 away from the location
\* of the effect.
C15_PanArrives ==
    Returned =>
        \A e \in Range(iter) :
            (eff[e].kind = "Pan" /\ ~InSeq(e, effects)) =>
                /\ Abs(pivot[1] - eff[e].coordinates[1]) <= 5
                /\ Abs(pivot[2] - eff[e].coordinates[2]) <= 5

\* C16: an update of a Zoom effect with linear easing (in the list once) at
\* which the elapsed fraction (lastRanTimeStamp - startedTimeStamp) /
\* duration is above 0.99 returns false and leaves both axes of the scale
\* less than 0.01 away from the zoom level.
C16_ZoomArrives ==
    [][\A e \in Effects :
          (/\ CallbackOf(e)
           /\ eff[e].kind = "Zoom" /\ eff[e].easingFn = "linear"
           /\ Count(e, iter) = 1
           /\ 100 * (eff[e].lastRanTimeStamp - eff'[e].startedTimeStamp)
                  > 99 * eff[e].duration)
          => /\ log'[Len(log) + 1].val = "false"
             /\ Abs(node'.scale[1] - eff[e].zoomLevel[1]) < Tolerance
             /\ Abs(node'.scale[2] - eff[e].zoomLevel[2]) < Tolerance]_vars

\* C17: an update of a Rotate effect with a positive angle, in a tick at a
\* later clock time than the effect's tick before (if any), leaves the
\* container's angle greater than it was.
C17_RotateIncreases ==
    [][\A e \in Effects :
          (/\ CallbackOf(e)
           /\ eff[e].kind = "Rotate"
           /\ eff[e].angle > 0
           /\ firstTick[e] = -1 \/ eff[e].lastRanTimeStamp < now)
          => node'.angle > node.angle]_vars

\* C18: when a tick returns that took a Rotate effect out of camera.effects,
\* the container's angle is at least the initial angle plus the angle of the
\* effect.
C18_RotateStaysUntilTarget ==
    Returned =>
        \A e \in Range(iter) :
            (eff[e].kind = "Rotate" /\ ~InSeq(e, effects)) =>
                node.angle >= eff[e].initialAngle + eff[e].angle

\* C19: an update of a Fade effect leaves the alpha of the overlay at most
\* as far from the opacity to fade to as it was.
C19_FadeApproaches ==
    [][\A e \in Effects :
          (CallbackOf(e) /\ eff[e].kind = "Fade") =>
              Abs(node'.alpha - eff[e].opacity) <= Abs(node.alpha - eff[e].opacity)]_vars

\* C20: the tint of the overlay is the color of the Fade effect once it is
\* constructed, and no step but a construction changes it: not an update of
\* the effect, not its removal.
C20_TintFixed ==
    /\ [](\A e \in Effects : eff[e].kind = "Fade" => node.tint = eff[e].color)
    /\ [][(\A e \in Effects : eff'[e].kind = eff[e].kind) => node'.tint = node.tint]_vars

\* A Fade to the color 255 that has changed the alpha of the overlay and
\* has been taken out of camera.effects by a tick.
C20_Witness ==
    /\ Returned
    /\ \E e \in Range(iter) :
          /\ eff[e].kind = "Fade" /\ eff[e].color = 255
          /\ ~InSeq(e, effects)
          /\ node.alpha # 0
          /\ node.tint = 255
\* Camera.update has just been left by an exception of an effect's update.
Thrown == pc = "idle" /\ log # <<>> /\ log[Len(log)].ev = "throw"

\* The effects whose update the running or last tick has called, in the
\* order of the calls.
RECURSIVE Updated(_)
Updated(l) ==
    IF l = <<>> THEN <<>>
    ELSE (IF Head(l).ev = "update" THEN <<Head(l).e>> ELSE <<>>) \o Updated(Tail(l))

C22_EmptyCamera ==
    /\ SumAdded(added, Effects) = 0 => effects = <<>>
    /\ (Returned /\ iter = <<>>) =>
           /\ effects = <<>>
           /\ log = <<Ev("tick", "", "", 0), Ev("return", "", "", 0)>>

\* A tick on the new camera, at a later clock time, has returned.
C22_Witness ==
    /\ Returned
    /\ SumAdded(added, Effects) = 0
    /\ now = 1
    /\ iter = <<>> /\ effects = <<>>

\* a is b with some of its entries left out.
RECURSIVE IsSubSeq(_, _)
IsSubSeq(a, b) ==
    IF a = <<>> THEN TRUE
    ELSE IF b = <<>> THEN FALSE
    ELSE IF Head(a) = Head(b) THEN IsSubSeq(Tail(a), Tail(b))
    ELSE IsSubSeq(a, Tail(b))

CallsOfStep == SubSeq(log', Len(log) + 1, Len(log'))

\* C24: the filter callback of an effect with an endCondition whose update
\* returned true or nothing calls the endCondition once, right after update,
\* with the delta Camera.update was called with, whether the duration is
\* reached or not; the callback of an effect whose update returned false (or
\* threw), or that has no endCondition, calls no endCondition.
C24_EndConditionCalls ==
    [][\A e \in Effects :
          CallbackOf(e) =>
              LET calls == CallsOfStep
                  ends == {i \in DOMAIN calls : calls[i].ev = "endCondition"}
              IN  IF eff[e].endCondition /\ calls[1].val \in {"true", "undefined"}
                  THEN /\ ends = {2}
                       /\ calls[2].e = e
                       /\ calls[2].arg = delta
                       /\ delta \in Deltas
                  ELSE ends = {}]_vars

\* A tick called with delta 2 that has called, with 2, the endCondition of an
\* effect whose duration was reached, and has removed the effect though the
\* endCondition returned false.
C24_Witness ==
    /\ Returned
    /\ \E e \in Range(iter) :
          /\ eff[e].duration = 1 /\ Elapsed(e) >= 1
          /\ \E i \in DOMAIN log :
                 /\ i > 1
                 /\ log[i] = Ev("endCondition", e, "false", 2)
                 /\ log[i - 1] = Ev("update", e, "undefined", 0)
          /\ ~InSeq(e, effects)

\* C25: the value lastRanTimeStamp - startedTimeStamp that an update call of
\* an effect finds is not less than the value the effect's update call
\* before it found.
C25_ElapsedNeverDecreases ==
    [][\A e \in Effects :
          (CallbackOf(e) /\ observed[e] # <<>>) =>
              observed'[e][1] >= observed[e][1]]_vars

\* C26: once a tick has called the update of an effect whose duration is 0
\* (no options, no duration or the duration 0) and that has no endCondition
\* (added once, its update not throwing), and Camera.update has been left,
\* the effect is not in camera.effects, its update was called once and its
\* onEnd, if it has one, once.
C26_ZeroDurationOneTick ==
    \A e \in Effects :
        (/\ pc = "idle"
         /\ eff[e].kind # "None" /\ eff[e].duration = 0 /\ ~eff[e].endCondition
         /\ added[e] = 1
         /\ CalledAny("update", e) /\ ~Called("update", e, "throw"))
        => /\ ~InSeq(e, effects)
           /\ Count(e, Updated(log)) = 1
           /\ eff[e].hasOnEnd => onEndCalls[e] = 1

\* C27: a filter callback of a Shake effect with an intensity I > 0 that
\* does not end the effect (no onEnd after the update) leaves both axes of
\* the container's pivot in [0, I), whatever the pivot was before the effect
\* and whatever the time since the effect started.
C27_ShakeWithinIntensity ==
    [][\A e \in Effects :
          (/\ CallbackOf(e)
           /\ eff[e].kind = "Shake" /\ eff[e].intensity > 0
           /\ \A i \in DOMAIN CallsOfStep : CallsOfStep[i].ev # "onEnd")
          => /\ 0 <= pivot'[1] /\ pivot'[1] < eff[e].intensity
             /\ 0 <= pivot'[2] /\ pivot'[2] < eff[e].intensity]_vars

\* A Shake of intensity 2, on a container whose pivot was (3, 4), that has
\* been updated and kept by ticks at the clock times 0 and 2 and has left the
\* pivot at (1, 0).
C27_Witness ==
    /\ Returned
    /\ now = 2
    /\ \E e \in Range(iter) :
          /\ eff[e].kind = "Shake" /\ eff[e].intensity = 2
          /\ firstTick[e] = 0
          /\ InSeq(e, effects) /\ Len(iter) = 1
          /\ pivot0 = <<3, 4>> /\ pivot = <<1, 0>>

\* C28: an update of a Pan effect leaves each axis of the container's pivot
\* at initial + (location - initial) * f, where initial is the pivot before
\* the effect and f = (lastRanTimeStamp - startedTimeStamp) / duration as
\* the update finds them (both sides multiplied by the duration).
C28_PanInterpolates ==
    [][\A e \in Effects :
          (CallbackOf(e) /\ eff[e].kind = "Pan") =>
              \A i \in {1, 2} :
                  pivot'[i] * eff[e].duration =
                      pivot0[i] * eff[e].duration
                      + (eff[e].coordinates[i] - pivot0[i])
                        * (eff[e].lastRanTimeStamp - eff'[e].startedTimeStamp)]_vars

\* C29: the constructor of a Zoom effect keeps the scale the container has;
\* an update of the effect leaves each axis of the scale at initial + (zoom
\* level * e) / 2 when the zoom level is greater than that initial scale and
\* at initial - zoom level * e when it is not, where e is the easing function
\* applied to (lastRanTimeStamp - startedTimeStamp) / duration as the update
\* finds them, whatever the scale has become in between (both equations
\* multiplied out).
C29_ZoomFormula ==
    /\ [][\A e \in Effects :
             (eff[e].kind = "None" /\ eff'[e].kind = "Zoom") =>
                 eff'[e].initialZoomLevel = node.scale]_vars
    /\ [][\A e \in Effects :
             (CallbackOf(e) /\ eff[e].kind = "Zoom") =>
                 LET E == eff[e]
                     f == ((E.lastRanTimeStamp - eff'[e].startedTimeStamp) * Unit)
                              \div E.duration
                     ez == Ease(E.easingFn, f)
                 IN  \A i \in {1, 2} :
                         IF E.zoomLevel[i] > E.initialZoomLevel[i]
                         THEN 2 * Unit * (node'.scale[i] - E.initialZoomLevel[i])
                                  = E.zoomLevel[i] * ez
                         ELSE Unit * (E.initialZoomLevel[i] - node'.scale[i])
                                  = E.zoomLevel[i] * ez]_vars

\* A linear Zoom from the scale (6, 6) to the zoom level (2, 8), updated at
\* the fraction 199 / 200 when the y axis had passed its zoom level at the
\* update before: the scale is (6 - 2 * 0.995, 6 + 8 * 0.995 / 2).
C29_Witness ==
    /\ eff["e1"].kind = "Zoom" /\ eff["e1"].easingFn = "linear"
    /\ eff["e1"].initialZoomLevel = <<6 * Unit, 6 * Unit>>
    /\ eff["e1"].zoomLevel = <<2 * Unit, 8 * Unit>>
    /\ observed["e1"] = <<199>>
    /\ node.scale = <<1604, 3992>>

\* C30: the construction of a Rotate effect leaves the container's pivot at
\* the middle of the container, (width / 2, height / 2), when the pivot was
\* (0, 0), and where it was for any other pivot.
C30_RotateRecenters ==
    [][\A e \in Effects :
          (eff[e].kind = "None" /\ eff'[e].kind = "Rotate") =>
              pivot' = IF pivot = <<0, 0>>
                       THEN <<node.width \div 2, node.height \div 2>>
                       ELSE pivot]_vars

\* C31: no update of a Rotate effect whose angle is negative, and so less
\* than the angle the container had at construction, returns false.
C31_RotateBackNeverStops ==
    [][\A e \in Effects :
          (/\ CallbackOf(e)
           /\ eff[e].kind = "Rotate"
           /\ eff[e].angle < 0 /\ eff[e].angle < eff[e].initialAngle)
          => log'[Len(log) + 1].val # "false"]_vars

\* C32: the construction of a Fade effect leaves the alpha of the overlay
\* sprite as it was and keeps it as the effect's initial opacity, and the
\* effect fades downward (alpha = initial opacity - amount) when that alpha
\* is above the opacity to fade to, upward when it is below.
C32_FadeFromOwnOpacity ==
    [][\A e \in Effects :
          (eff[e].kind = "None" /\ eff'[e].kind = "Fade") =>
              /\ node'.alpha = node.alpha
              /\ eff'[e].initialOpacity = node.alpha
              /\ node.alpha > eff'[e].opacity => ~eff'[e].isFadeOut
              /\ node.alpha < eff'[e].opacity => eff'[e].isFadeOut]_vars

\* C33: the value lastRanTimeStamp - startedTimeStamp that an update call of
\* an effect finds is 0 at the effect's first update call and at least 0 at
\* every one.
C33_ElapsedFromZero ==
    [][\A e \in Effects :
          CallbackOf(e) =>
              /\ observed'[e][1] >= 0
              /\ observed[e] = <<>> => observed'[e][1] = 0]_vars

\* C34: the value lastRanTimeStamp - startedTimeStamp that an update call
\* finds, for an effect with a finite duration D > 0 that was added to the
\* camera once, is less than D.
C34_ElapsedBelowDuration ==
    [][\A e \in Effects :
          (/\ CallbackOf(e)
           /\ eff[e].duration > 0 /\ eff[e].duration # Infinity
           /\ added[e] = 1)
          => observed'[e][1] < eff[e].duration]_vars

\* C35: once two Shake effects on the container, each added to the camera
\* once, have both been ended by ticks (the onEnd of each has run, neither
\* is in camera.effects), the container's pivot is the pivot it had before
\* the first of them was constructed.
C35_TwoShakesRestorePivot ==
    \A a, b \in Effects :
        (/\ a # b
         /\ pc = "idle"
         /\ eff[a].kind = "Shake" /\ eff[b].kind = "Shake"
         /\ added[a] = 1 /\ added[b] = 1
         /\ onEndCalls[a] = 1 /\ onEndCalls[b] = 1
         /\ ~InSeq(a, effects) /\ ~InSeq(b, effects))
        => pivot = pivot0

\* C36: a removeEffect call between ticks calls no onEnd and writes neither
\* the fields of an effect (its time stamps included) nor the container: the
\* pivot, the scale, the angle and the overlay are what they were.
C36_RemoveEffectSilent ==
    [][\A e \in Effects :
          (pc = "idle" /\ log' = <<Ev("removeEffect", e, "", 0)>>) =>
              /\ onEndCalls' = onEndCalls
              /\ \A x \in Effects : eff'[x] = eff[x]
              /\ pivot' = pivot
              /\ node' = node]_vars

\* A Shake of intensity 2, on a container whose pivot was (3, 4), that was
\* started by a tick at clock time 1 and has just been removed by
\* removeEffect: its onEnd has not run, its time stamps are those of the
\* tick and the pivot is the shaken (1, 0).
C36_Witness ==
    /\ log = <<Ev("removeEffect", "e1", "", 0)>>
    /\ eff["e1"].kind = "Shake" /\ eff["e1"].intensity = 2
    /\ eff["e1"].startedTimeStamp = 1 /\ eff["e1"].lastRanTimeStamp = 1
    /\ added["e1"] = 1 /\ ~InSeq("e1", effects)
    /\ onEndCalls["e1"] = 0
    /\ pivot0 = <<3, 4>> /\ pivot = <<1, 0>>

\* C37: addEffect writes no field of the effect; and once a tick has called
\* the update of an effect with a finite duration that is in the camera again
\* (added a second time, in the list once) after its duration had elapsed
\* (the update finds lastRanTimeStamp - startedTimeStamp >= duration), and
\* Camera.update has been left, the effect's startedTimeStamp is still the
\* non-zero clock time of its first tick, the effect is not in
\* camera.effects, and the tick has called its update once and its onEnd, if
\* it has one, once.
C37_ReaddedNotRestarted ==
    /\ [][\A e \in Effects : added'[e] # added[e] => eff' = eff]_vars
    /\ [](\A e \in Effects :
             (/\ pc = "idle"
              /\ added[e] = 2 /\ Count(e, iter) = 1
              /\ eff[e].duration # Infinity
              /\ firstTick[e] > 0
              /\ CalledAny("update", e) /\ ~Called("update", e, "throw")
              /\ observed[e][1] >= eff[e].duration)
             => /\ eff[e].startedTimeStamp = firstTick[e]
                /\ ~InSeq(e, effects)
                /\ Count(e, Updated(log)) = 1
                /\ eff[e].hasOnEnd =>
                       Cardinality({i \in DOMAIN log :
                                       log[i] = Ev("onEnd", e, "", 0)}) = 1)
====
